---- MODULE Spec2Model ----
(***************************************************************************)
(* alert-deleter (src/main.rs): replicas of one process compete for a      *)
(* Kubernetes lease; the winner spawns a renewal watchdog and polls an     *)
(* Alertmanager, deleting pods or posting webhooks for matching alerts.    *)
(*                                                                         *)
(* Time is discrete (one Tick = one second).  Every timer is kept as the   *)
(* time that remains; a task whose timer has run out resumes within the    *)
(* second, a network call takes any amount of time.                        *)
(***************************************************************************)
EXTENDS Integers, Sequences, FiniteSets, TLC

VARIABLES
    args,          \* Args: interval, lease_secs, alert_names (fixed after parse)
    source,        \* what GET <alertmanager_url> currently returns (JSON)
    lease,         \* the shared Lease object: holder and seconds since renewal
    pc,            \* position of each process's main task
    wd,            \* position of each process's spawned renewal task
    sleep,         \* remaining seconds of the main task's sleep (line 108)
    interval_timer,\* remaining seconds until interval_timer's next tick
    wd_sleep,      \* remaining seconds of the renewal task's sleep (line 115)
    alerts,        \* the Vec<Alert> of the current poll cycle
    cur,           \* index in alerts of the alert the for loop is at
    out,           \* history: calls issued and lines logged in the current cycle,
                   \* kept until the for loop ends
    lease_result,  \* history: outcome of the process's last lease call
    won,           \* history: some lease call of the process returned acquired
    renewed_ago,   \* history: seconds since the last such call, up to lease_secs
    wd_errs,       \* history: number of Err results the renewal task has seen
                   \* since its last renewal
    exit,          \* exit status of the process, NoExit while it runs
    dual_secs      \* history: seconds the process has been Leader while the
                   \* Lease names another replica, up to WindowCap; kept only
                   \* in the specification that starts it at 0

vars == <<args, source, lease, pc, wd, sleep, interval_timer, wd_sleep,
          alerts, cur, out, lease_result, won, renewed_ago, wd_errs, exit,
          dual_secs>>

-----------------------------------------------------------------------------
(* Bounds of the model *)

\* longest alert list the alert source returns
MaxBatch == 2
\* the count of renewal errors is kept up to this value
MaxWdErrs == 2

(* Constants of the program *)

\* tokio::time::sleep(Duration::from_secs(1)) in the acquire loop
AcquireBackoffSecs == 1
\* tokio::time::sleep(Duration::from_secs(5)) in the renewal task
RenewSecs == 5
\* default_value_t of --lease-secs
DefaultLeaseSecs == 10
\* process::exit(1); a main that returns Err exits with 1 as well
ExitFailure == 1

Procs == {"r1", "r2"}
NoHolder == "nobody"
\* a holder left in the Lease by a process that is gone
StaleHolder == "r0"
NoExit == [code |-> 0 - 1, by |-> "running"]
\* the value of dual_secs where that history is not kept
WindowOff == 0 - 1

-----------------------------------------------------------------------------
(* Option<String>: <<>> is None, <<s>> is Some(s) *)

None == <<>>
Some(s) == <<s>>
IsSome(o) == o # None
Unwrap(o) == o[1]

(* JSON on the wire.  An object is a function from its keys; JsonNull is   *)
(* the JSON null, a value no string of the model equals.                   *)
JsonNull == "\\null"
EmptyObject == [k \in {} |-> JsonNull]
Field(k, o) == IF IsSome(o) THEN k :> Unwrap(o) ELSE EmptyObject

\* an alert as the alert source sends it: absent labels are absent keys
WireAlert(fp, state, name, pod, ns, action, url) ==
    [fingerprint |-> fp,
     status |-> [state |-> state],
     labels |-> Field("alertname", name) @@ Field("pod", pod)
                @@ Field("namespace", ns) @@ Field("action", action)
                @@ Field("webhook_url", url)]

\* serde: an Option field is None when the key is absent or null
OptionField(obj, k) ==
    IF k \in DOMAIN obj /\ obj[k] # JsonNull THEN Some(obj[k]) ELSE None

\* #[derive(Deserialize)] for Alert: alertname is required
Deserializable(w) == "alertname" \in DOMAIN w.labels /\ w.labels["alertname"] # JsonNull

DeserializeAlert(w) ==
    [fingerprint |-> w.fingerprint,
     status |-> [state |-> w.status.state],
     labels |-> [alertname |-> w.labels["alertname"],
                 pod |-> OptionField(w.labels, "pod"),
                 namespace |-> OptionField(w.labels, "namespace"),
                 action |-> OptionField(w.labels, "action"),
                 webhook_url |-> OptionField(w.labels, "webhook_url")]]

\* mutant: None is written as an empty string
OptionJson_EmptyString(o) == IF IsSome(o) THEN Unwrap(o) ELSE ""

\* #[derive(Serialize)] for Alert: every field is written, None as null
OptionJson(o) == IF IsSome(o) THEN Unwrap(o) ELSE JsonNull

SerializeAlert(a) ==
    [fingerprint |-> a.fingerprint,
     status |-> [state |-> a.status.state],
     labels |-> [alertname |-> a.labels.alertname,
                 pod |-> OptionJson(a.labels.pod),
                 namespace |-> OptionJson(a.labels.namespace),
                 action |-> OptionJson(a.labels.action),
                 webhook_url |-> OptionJson(a.labels.webhook_url)]]

\* .json::<Vec<Alert>>(): the whole body fails when one element does
JsonVecAlert(body) ==
    IF \A i \in 1..Len(body) : Deserializable(body[i])
    THEN [ok |-> TRUE, val |-> [i \in 1..Len(body) |-> DeserializeAlert(body[i])]]
    ELSE [ok |-> FALSE, val |-> <<>>]

-----------------------------------------------------------------------------
(* The alert source: what the model lets it return *)

AllowedName == "HighMemory"
OtherName == "DiskFull"
Fingerprints == <<"f1", "f2", "f3", "f4">>
OptionOf(S) == {None} \cup {Some(s) : s \in S}

\* every alert the source can put first in its list
WireAlerts(fp) ==
    {WireAlert(fp, state, Some(name), pod, ns, action, url) :
        state \in {"active", "resolved"},
        name \in {AllowedName, OtherName},
        pod \in OptionOf({"api-0"}),
        ns \in OptionOf({"prod"}),
        action \in OptionOf({"delete_pod", "webhook", "restart"}),
        url \in OptionOf({"http://x/y"})}

\* the alerts that can follow it: one of each way the for loop treats an alert
Followers(fp) ==
    {WireAlert(fp, "active", Some(AllowedName), Some("db-1"), Some("prod"), None, None),
     WireAlert(fp, "active", Some(AllowedName), Some("db-1"), Some("prod"),
               Some("webhook"), Some("http://x/z")),
     WireAlert(fp, "active", Some(AllowedName), None, Some("prod"), None, None),
     WireAlert(fp, "resolved", Some(AllowedName), Some("db-1"), Some("prod"), None, None)}

\* an element serde rejects: the required alertname is missing
BadAlert(fp) == WireAlert(fp, "active", None, Some("api-0"), Some("prod"), None, None)

RECURSIVE Bodies(_)
Bodies(n) ==
    IF n = 0 THEN {<<>>}
    ELSE IF n = 1 THEN {<<a>> : a \in WireAlerts(Fingerprints[1])}
    ELSE {Append(b, a) : b \in Bodies(n - 1), a \in Followers(Fingerprints[n])}

AllBodies ==
    UNION {Bodies(n) : n \in 0..MaxBatch} \cup {<<BadAlert(Fingerprints[1])>>}

\* the lists the two-replica specification polls
FewBodies ==
    {<<WireAlert("f1", "active", Some(AllowedName), Some("api-0"), Some("prod"), None, None)>>,
     <<WireAlert("f1", "active", Some(AllowedName), None, None,
                 Some("webhook"), Some("http://x/y"))>>}

-----------------------------------------------------------------------------
(* The lease primitive: kube_leader_election::LeaseLock *)

LeaseExpired == lease.holder # NoHolder /\ lease.age >= args.lease_secs

\* try_acquire_or_renew: renew when the caller holds the Lease, take it when
\* it does not exist or has expired, report acquired_lease = false otherwise
LeaseGrants(p) == lease.holder = NoHolder \/ lease.holder = p \/ LeaseExpired

LeaseAfter(p) == IF LeaseGrants(p) THEN [holder |-> p, age |-> 0] ELSE lease

\* the results of one call: Ok(acquired_lease) computed on the Lease, or Err
LeaseResults(p) == {IF LeaseGrants(p) THEN "acquired" ELSE "denied", "error"}

-----------------------------------------------------------------------------
(* Initial states *)

InitProcess(deployed) ==
    /\ pc = [p \in Procs |-> IF p \in deployed THEN "acquire_call" ELSE "absent"]
    /\ wd = [p \in Procs |-> "unspawned"]
    /\ sleep = [p \in Procs |-> 0]
    /\ interval_timer = [p \in Procs |-> 0]
    /\ wd_sleep = [p \in Procs |-> 0]
    /\ alerts = [p \in Procs |-> <<>>]
    /\ cur = [p \in Procs |-> 0]
    /\ out = [p \in Procs |-> <<>>]
    /\ lease_result = [p \in Procs |-> "none"]
    /\ won = [p \in Procs |-> FALSE]
    /\ renewed_ago = [p \in Procs |-> args.lease_secs]
    /\ wd_errs = [p \in Procs |-> 0]
    /\ exit = [p \in Procs |-> NoExit]

\* two replicas, the default lease TTL, no Lease object yet
Init ==
    /\ args = [interval |-> 1, lease_secs |-> DefaultLeaseSecs,
               alert_names |-> {AllowedName}]
    /\ source \in FewBodies
    /\ lease = [holder |-> NoHolder, age |-> 0]
    /\ InitProcess(Procs)
    /\ dual_secs = [p \in Procs |-> WindowOff]

\* two replicas and a shorter TTL, still above the renewal sleep, with the
\* history of the dual-leadership window kept
InitWindow ==
    /\ args = [interval |-> 1, lease_secs |-> RenewSecs + 1,
               alert_names |-> {AllowedName}]
    /\ source \in FewBodies
    /\ lease = [holder |-> NoHolder, age |-> 0]
    /\ InitProcess(Procs)
    /\ dual_secs = [p \in Procs |-> 0]

\* two replicas started with --lease-secs below the renewal sleep
InitShortTtl ==
    /\ args = [interval |-> 1, lease_secs |-> RenewSecs - 1,
               alert_names |-> {AllowedName}]
    /\ source \in FewBodies
    /\ lease = [holder |-> NoHolder, age |-> 0]
    /\ InitProcess(Procs)
    /\ dual_secs = [p \in Procs |-> WindowOff]

\* one replica with the default TTL; the Lease may be left over from a dead
\* holder, so that the acquire loop has to wait for it to expire
InitFair ==
    /\ args = [interval |-> 1, lease_secs |-> DefaultLeaseSecs,
               alert_names |-> {AllowedName}]
    /\ source \in FewBodies
    /\ lease \in {[holder |-> NoHolder, age |-> 0], [holder |-> StaleHolder, age |-> 0]}
    /\ InitProcess({"r1"})
    /\ dual_secs = [p \in Procs |-> WindowOff]

\* one replica, every alert list; the Lease may be left over from a dead holder
InitDispatch ==
    /\ args = [interval |-> 1, lease_secs |-> 2, alert_names |-> {AllowedName}]
    /\ source \in AllBodies
    /\ lease \in {[holder |-> NoHolder, age |-> 0], [holder |-> StaleHolder, age |-> 0]}
    /\ InitProcess({"r1"})
    /\ dual_secs = [p \in Procs |-> WindowOff]

-----------------------------------------------------------------------------
(* Conditions and arms of main *)

\* mutant: the loop is left after the first call, whatever it returned
BreakAcquireLoop_Always(result) == result # "error"

\* mutant: the test of line 105 negated
BreakAcquireLoop_Negated(result) == result = "denied"

\* line 105: if lease.acquired_lease { break; }
BreakAcquireLoop(result) == result = "acquired"

\* mutant: the renewal task never sees the lease as lost
LostLease_Never(result) == FALSE

\* line 123: if !lease.acquired_lease { process::exit(1) }
LostLease(result) == result = "denied"

\* mutant: the Err arm ends the process like a lost lease
WatchdogVerdict_ErrFatal(result) == IF result = "acquired" THEN "continue" ELSE "exit"

\* mutant: acquired = false is logged like an Err and the loop continues
WatchdogVerdict_DeniedRetries(result) == "continue"

\* lines 116-126: Err is logged and the loop continues; Ok without the lease
\* ends the process; Ok with it goes back to sleep
WatchdogVerdict(result) ==
    IF result = "error" THEN "continue"
    ELSE IF LostLease(result) THEN "exit"
    ELSE "continue"

\* mutant: the status test of line 139 is left out
Matches_NameOnly(a) == a.labels.alertname \in args.alert_names

\* lines 138-139: the alert is one to act on
Matches(a) == a.labels.alertname \in args.alert_names /\ a.status.state = "active"

\* line 142: alert.labels.action.as_deref().unwrap_or("delete_pod")
ActionOf(a) == IF IsSome(a.labels.action) THEN Unwrap(a.labels.action) ELSE "delete_pod"

LogLine(i, level, text, names) ==
    [idx |-> i, kind |-> "log", level |-> level, text |-> text, names |-> names]

\* mutant: delete_pod is called with pod and namespace swapped
DeletePodArm_Swapped(a, i) ==
    IF IsSome(a.labels.pod) /\ IsSome(a.labels.namespace)
    THEN [next |-> "delete_pod",
          emit |-> <<[idx |-> i, kind |-> "delete_pod", pod |-> Unwrap(a.labels.namespace),
                      namespace |-> Unwrap(a.labels.pod)]>>]
    ELSE [next |-> "for",
          emit |-> <<LogLine(i, "error", "Alert {} is missing pod or namespace",
                             <<a.fingerprint>>)>>]

\* What one arm does with alert a at index i: the call it awaits (next is the
\* position of the main task) or the line it logs before the loop goes on.
\* lines 145-160
DeletePodArm(a, i) ==
    IF IsSome(a.labels.pod) /\ IsSome(a.labels.namespace)
    THEN [next |-> "delete_pod",
          emit |-> <<[idx |-> i, kind |-> "delete_pod", pod |-> Unwrap(a.labels.pod),
                      namespace |-> Unwrap(a.labels.namespace)]>>]
    ELSE [next |-> "for",
          emit |-> <<LogLine(i, "error", "Alert {} is missing pod or namespace",
                             <<a.fingerprint>>)>>]

\* mutant: a missing webhook_url ends the for loop (a break after the log)
WebhookArm_MissingBreaks(a, i) ==
    IF IsSome(a.labels.webhook_url)
    THEN [next |-> "webhook",
          emit |-> <<[idx |-> i, kind |-> "post", url |-> Unwrap(a.labels.webhook_url),
                      body |-> SerializeAlert(a)]>>]
    ELSE [next |-> "tick",
          emit |-> <<LogLine(i, "error", "No webhook URL specified in alert {}",
                             <<a.fingerprint>>)>>]

\* lines 161-179
WebhookArm(a, i) ==
    IF IsSome(a.labels.webhook_url)
    THEN [next |-> "webhook",
          emit |-> <<[idx |-> i, kind |-> "post", url |-> Unwrap(a.labels.webhook_url),
                      body |-> SerializeAlert(a)]>>]
    ELSE [next |-> "for",
          emit |-> <<LogLine(i, "error", "No webhook URL specified in alert {}",
                             <<a.fingerprint>>)>>]

\* lines 180-183
UnknownArm(a, i) ==
    [next |-> "for",
     emit |-> <<LogLine(i, "warn", "Unknown action '{}' in alert {}",
                        <<ActionOf(a), a.fingerprint>>)>>]

\* mutant: the default arm is missing, an unknown action is taken as delete_pod
ForBody_NoDefaultArm(a, i) ==
    IF ~Matches(a) THEN [next |-> "for", emit |-> <<>>]
    ELSE IF ActionOf(a) = "webhook" THEN WebhookArm(a, i)
    ELSE DeletePodArm(a, i)

\* lines 136-185: the body of the for loop for one alert
ForBody(a, i) ==
    IF ~Matches(a) THEN [next |-> "for", emit |-> <<>>]
    ELSE IF ActionOf(a) = "delete_pod" THEN DeletePodArm(a, i)
    ELSE IF ActionOf(a) = "webhook" THEN WebhookArm(a, i)
    ELSE UnknownArm(a, i)

\* lines 77-79 and 149-153: what the main task logs when delete_pod returns
DeletePodLog(call, ok) ==
    IF ok THEN LogLine(call.idx, "info", "Deleted pod {} in namespace {}",
                       <<call.pod, call.namespace>>)
    ELSE LogLine(call.idx, "error", "Failed to delete pod: {}", <<>>)

\* lines 167-172: what it logs when the POST returns
WebhookLog(a, i, ok) ==
    IF ok THEN LogLine(i, "info", "Sent webhook for alert {}", <<a.fingerprint>>)
    ELSE LogLine(i, "error", "Failed to send webhook: {}", <<>>)

-----------------------------------------------------------------------------
(* Actions: one per resumption of a task *)

\* mutant: instead of ending, the process goes back to the acquire loop
Exits_Reacquire(p, by) ==
    /\ pc' = [pc EXCEPT ![p] = "acquire_call"]
    /\ wd' = [wd EXCEPT ![p] = IF wd[p] = "unspawned" THEN "unspawned" ELSE "exited"]
    /\ UNCHANGED <<exit, sleep, interval_timer, wd_sleep>>
    /\ alerts' = [alerts EXCEPT ![p] = <<>>]
    /\ cur' = [cur EXCEPT ![p] = 0]
    /\ out' = [out EXCEPT ![p] = <<>>]
    /\ dual_secs' = [dual_secs EXCEPT ![p] = IF @ = WindowOff THEN @ ELSE 0]

\* lines 104, 125 (process::exit(1), or main returning Err): the process ends,
\* both tasks stop, its timers and its memory are gone
Exits(p, by) ==
    /\ pc' = [pc EXCEPT ![p] = "exited"]
    /\ wd' = [wd EXCEPT ![p] = IF wd[p] = "unspawned" THEN "unspawned" ELSE "exited"]
    /\ exit' = [exit EXCEPT ![p] = [code |-> ExitFailure, by |-> by]]
    /\ sleep' = [sleep EXCEPT ![p] = 0]
    /\ interval_timer' = [interval_timer EXCEPT ![p] = 0]
    /\ wd_sleep' = [wd_sleep EXCEPT ![p] = 0]
    /\ alerts' = [alerts EXCEPT ![p] = <<>>]
    /\ cur' = [cur EXCEPT ![p] = 0]
    /\ out' = [out EXCEPT ![p] = <<>>]
    /\ dual_secs' = [dual_secs EXCEPT ![p] = IF @ = WindowOff THEN @ ELSE 0]

\* mutant: the renewal task is spawned inside the acquire loop, won or not
AcquireReturn_SpawnsEarly(p) ==
    /\ pc[p] = "acquire_call"
    /\ \E result \in LeaseResults(p) :
        /\ lease_result' = [lease_result EXCEPT ![p] = result]
        /\ IF result = "error"
           THEN /\ Exits(p, "lease_error")
                /\ UNCHANGED <<lease, won, renewed_ago>>
           ELSE /\ lease' = LeaseAfter(p)
                /\ won' = [won EXCEPT ![p] = @ \/ result = "acquired"]
                /\ renewed_ago' = [renewed_ago EXCEPT ![p] =
                        IF result = "acquired" THEN 0 ELSE @]
                /\ UNCHANGED <<exit, interval_timer, alerts, cur, out, dual_secs>>
                /\ wd' = [wd EXCEPT ![p] = "sleep"]
                /\ wd_sleep' = [wd_sleep EXCEPT ![p] = RenewSecs]
                /\ IF BreakAcquireLoop(result)
                   THEN /\ pc' = [pc EXCEPT ![p] = "tick"]
                        /\ UNCHANGED sleep
                   ELSE /\ pc' = [pc EXCEPT ![p] = "acquire_sleep"]
                        /\ sleep' = [sleep EXCEPT ![p] = AcquireBackoffSecs]
    /\ UNCHANGED <<args, source, wd_errs>>

\* mutant: an Err in the acquire loop is retried like acquired = false
AcquireReturn_ErrRetries(p) ==
    /\ pc[p] = "acquire_call"
    /\ \E result \in LeaseResults(p) :
        /\ lease_result' = [lease_result EXCEPT ![p] = result]
        /\ lease' = IF result = "error" THEN lease ELSE LeaseAfter(p)
        /\ won' = [won EXCEPT ![p] = @ \/ result = "acquired"]
        /\ renewed_ago' = [renewed_ago EXCEPT ![p] = IF result = "acquired" THEN 0 ELSE @]
        /\ UNCHANGED <<exit, interval_timer, alerts, cur, out, dual_secs>>
        /\ IF BreakAcquireLoop(result)
           THEN /\ pc' = [pc EXCEPT ![p] = "tick"]
                /\ wd' = [wd EXCEPT ![p] = "sleep"]
                /\ wd_sleep' = [wd_sleep EXCEPT ![p] = RenewSecs]
                /\ UNCHANGED sleep
           ELSE /\ pc' = [pc EXCEPT ![p] = "acquire_sleep"]
                /\ sleep' = [sleep EXCEPT ![p] = AcquireBackoffSecs]
                /\ UNCHANGED <<wd, wd_sleep>>
    /\ UNCHANGED <<args, source, wd_errs>>

\* lines 103-113, 131-132: try_acquire_or_renew returns in the acquire loop
AcquireReturn(p) ==
    /\ pc[p] = "acquire_call"
    /\ \E result \in LeaseResults(p) :
        /\ lease_result' = [lease_result EXCEPT ![p] = result]
        /\ IF result = "error"
           THEN /\ Exits(p, "lease_error")
                /\ UNCHANGED <<lease, won, renewed_ago>>
           ELSE /\ lease' = LeaseAfter(p)
                /\ won' = [won EXCEPT ![p] = @ \/ result = "acquired"]
                /\ renewed_ago' = [renewed_ago EXCEPT ![p] =
                        IF result = "acquired" THEN 0 ELSE @]
                /\ UNCHANGED <<exit, interval_timer, alerts, cur, out, dual_secs>>
                /\ IF BreakAcquireLoop(result)
                   THEN /\ pc' = [pc EXCEPT ![p] = "tick"]
                        /\ wd' = [wd EXCEPT ![p] = "sleep"]
                        /\ wd_sleep' = [wd_sleep EXCEPT ![p] = RenewSecs]
                        /\ UNCHANGED sleep
                   ELSE /\ pc' = [pc EXCEPT ![p] = "acquire_sleep"]
                        /\ sleep' = [sleep EXCEPT ![p] = AcquireBackoffSecs]
                        /\ UNCHANGED <<wd, wd_sleep>>
    /\ UNCHANGED <<args, source, wd_errs>>

\* mutant: the loop calls again without waiting for the sleep
AcquireWake_NoBackoff(p) ==
    /\ pc[p] = "acquire_sleep"
    /\ pc' = [pc EXCEPT ![p] = "acquire_call"]
    /\ UNCHANGED <<args, source, lease, wd, sleep, interval_timer, wd_sleep,
                   alerts, cur, out, lease_result, won, renewed_ago, wd_errs, exit,
                   dual_secs>>

\* line 108: the backoff sleep is over, the loop calls again
AcquireWake(p) ==
    /\ pc[p] = "acquire_sleep"
    /\ sleep[p] = 0
    /\ pc' = [pc EXCEPT ![p] = "acquire_call"]
    /\ UNCHANGED <<args, source, lease, wd, sleep, interval_timer, wd_sleep,
                   alerts, cur, out, lease_result, won, renewed_ago, wd_errs, exit,
                   dual_secs>>

\* line 115: the renewal task's sleep is over, it calls try_acquire_or_renew
WatchdogWake(p) ==
    /\ wd[p] = "sleep"
    /\ wd_sleep[p] = 0
    /\ wd' = [wd EXCEPT ![p] = "renew_call"]
    /\ UNCHANGED <<args, source, lease, pc, sleep, interval_timer, wd_sleep,
                   alerts, cur, out, lease_result, won, renewed_ago, wd_errs, exit,
                   dual_secs>>

\* lines 116-127: the renewal task's call returns
WatchdogReturn(p) ==
    /\ wd[p] = "renew_call"
    /\ \E result \in LeaseResults(p) :
        /\ lease_result' = [lease_result EXCEPT ![p] = result]
        /\ lease' = IF result = "error" THEN lease ELSE LeaseAfter(p)
        /\ won' = [won EXCEPT ![p] = @ \/ result = "acquired"]
        /\ renewed_ago' = [renewed_ago EXCEPT ![p] = IF result = "acquired" THEN 0 ELSE @]
        /\ wd_errs' = [wd_errs EXCEPT ![p] =
                IF result = "acquired" THEN 0
                ELSE IF result = "error" /\ @ < MaxWdErrs THEN @ + 1 ELSE @]
        /\ IF WatchdogVerdict(result) = "exit"
           THEN Exits(p, IF result = "error" THEN "lease_error" ELSE "lost_lease")
           ELSE /\ wd' = [wd EXCEPT ![p] = "sleep"]
                /\ wd_sleep' = [wd_sleep EXCEPT ![p] = RenewSecs]
                /\ dual_secs' = [dual_secs EXCEPT ![p] =
                        IF result = "acquired" /\ @ # WindowOff THEN 0 ELSE @]
                /\ UNCHANGED <<pc, exit, sleep, interval_timer, alerts, cur, out>>
    /\ UNCHANGED <<args, source>>

\* mutant: the tick does not wait for the calls of the cycle before it
IntervalTick_Overlapping(p) ==
    /\ pc[p] \in {"tick", "delete_pod", "webhook"}
    /\ interval_timer[p] = 0
    /\ interval_timer' = [interval_timer EXCEPT ![p] = args.interval]
    /\ pc' = [pc EXCEPT ![p] = "get_alerts"]
    /\ out' = [out EXCEPT ![p] = <<>>]
    /\ UNCHANGED <<args, source, lease, wd, sleep, wd_sleep, alerts, cur,
                   lease_result, won, renewed_ago, wd_errs, exit,
                   dual_secs>>

\* lines 132-134: interval_timer.tick() completes, get_alerts is called
IntervalTick(p) ==
    /\ pc[p] = "tick"
    /\ interval_timer[p] = 0
    /\ interval_timer' = [interval_timer EXCEPT ![p] = args.interval]
    /\ pc' = [pc EXCEPT ![p] = "get_alerts"]
    /\ out' = [out EXCEPT ![p] = <<>>]
    /\ UNCHANGED <<args, source, lease, wd, sleep, wd_sleep, alerts, cur,
                   lease_result, won, renewed_ago, wd_errs, exit,
                   dual_secs>>

\* mutant: the error of get_alerts is propagated with ? and ends the process
GetAlertsReturn_ErrPropagates(p) ==
    /\ pc[p] = "get_alerts"
    /\ \E sent \in BOOLEAN :
        LET parsed == IF sent THEN JsonVecAlert(source) ELSE [ok |-> FALSE, val |-> <<>>]
        IN  IF parsed.ok
            THEN /\ alerts' = [alerts EXCEPT ![p] = parsed.val]
                 /\ cur' = [cur EXCEPT ![p] = 1]
                 /\ pc' = [pc EXCEPT ![p] = "for"]
                 /\ UNCHANGED <<out, wd, sleep, interval_timer, wd_sleep, exit,
                                dual_secs>>
            ELSE Exits(p, "fetch_error")
    /\ UNCHANGED <<args, source, lease, lease_result, won, renewed_ago, wd_errs>>

\* mutant: after a failed fetch the main task waits for a tick that never comes
GetAlertsReturn_FailureHalts(p) ==
    /\ pc[p] = "get_alerts"
    /\ \E sent \in BOOLEAN :
        LET parsed == IF sent THEN JsonVecAlert(source) ELSE [ok |-> FALSE, val |-> <<>>]
        IN  IF parsed.ok
            THEN /\ alerts' = [alerts EXCEPT ![p] = parsed.val]
                 /\ cur' = [cur EXCEPT ![p] = 1]
                 /\ pc' = [pc EXCEPT ![p] = "for"]
                 /\ UNCHANGED out
            ELSE /\ out' = [out EXCEPT ![p] =
                        <<LogLine(0, "error", "Failed to get alerts: {}", <<>>)>>]
                 /\ pc' = [pc EXCEPT ![p] = "halted"]
                 /\ UNCHANGED <<alerts, cur>>
    /\ UNCHANGED <<args, source, lease, wd, sleep, interval_timer, wd_sleep,
                   lease_result, won, renewed_ago, wd_errs, exit, dual_secs>>

\* lines 62-72, 134-136, 188-190: get_alerts returns
GetAlertsReturn(p) ==
    /\ pc[p] = "get_alerts"
    /\ \E sent \in BOOLEAN :
        LET parsed == IF sent THEN JsonVecAlert(source) ELSE [ok |-> FALSE, val |-> <<>>]
        IN  IF parsed.ok
            THEN /\ alerts' = [alerts EXCEPT ![p] = parsed.val]
                 /\ cur' = [cur EXCEPT ![p] = 1]
                 /\ pc' = [pc EXCEPT ![p] = "for"]
                 /\ UNCHANGED out
            ELSE /\ out' = [out EXCEPT ![p] =
                        <<LogLine(0, "error", "Failed to get alerts: {}", <<>>)>>]
                 /\ pc' = [pc EXCEPT ![p] = "tick"]
                 /\ UNCHANGED <<alerts, cur>>
    /\ UNCHANGED <<args, source, lease, wd, sleep, interval_timer, wd_sleep,
                   lease_result, won, renewed_ago, wd_errs, exit,
                   dual_secs>>

\* lines 136-186: the for loop takes its next alert, or ends
ForAlert(p) ==
    /\ pc[p] = "for"
    /\ IF cur[p] > Len(alerts[p])
       THEN /\ pc' = [pc EXCEPT ![p] = "tick"]
            /\ alerts' = [alerts EXCEPT ![p] = <<>>]
            /\ cur' = [cur EXCEPT ![p] = 0]
            /\ out' = [out EXCEPT ![p] = <<>>]
       ELSE LET step == ForBody(alerts[p][cur[p]], cur[p])
            IN  /\ pc' = [pc EXCEPT ![p] = step.next]
                /\ out' = [out EXCEPT ![p] = @ \o step.emit]
                /\ cur' = [cur EXCEPT ![p] = IF step.next = "for" THEN @ + 1 ELSE @]
                /\ UNCHANGED alerts
    /\ UNCHANGED <<args, source, lease, wd, sleep, interval_timer, wd_sleep,
                   lease_result, won, renewed_ago, wd_errs, exit,
                   dual_secs>>

\* mutant: a failed deletion ends the for loop (the error is propagated)
DeletePodReturn_FailureBreaks(p) ==
    /\ pc[p] = "delete_pod"
    /\ \E ok \in BOOLEAN :
        /\ out' = [out EXCEPT ![p] = Append(@, DeletePodLog(out[p][Len(out[p])], ok))]
        /\ pc' = [pc EXCEPT ![p] = IF ok THEN "for" ELSE "tick"]
    /\ cur' = [cur EXCEPT ![p] = @ + 1]
    /\ UNCHANGED <<args, source, lease, wd, sleep, interval_timer, wd_sleep,
                   alerts, lease_result, won, renewed_ago, wd_errs, exit,
                   dual_secs>>

\* lines 74-80, 149-153: pods.delete returns
DeletePodReturn(p) ==
    /\ pc[p] = "delete_pod"
    /\ \E ok \in BOOLEAN :
        out' = [out EXCEPT ![p] = Append(@, DeletePodLog(out[p][Len(out[p])], ok))]
    /\ cur' = [cur EXCEPT ![p] = @ + 1]
    /\ pc' = [pc EXCEPT ![p] = "for"]
    /\ UNCHANGED <<args, source, lease, wd, sleep, interval_timer, wd_sleep,
                   alerts, lease_result, won, renewed_ago, wd_errs, exit,
                   dual_secs>>

\* lines 166-172: the POST returns
WebhookReturn(p) ==
    /\ pc[p] = "webhook"
    /\ \E ok \in BOOLEAN :
        out' = [out EXCEPT ![p] = Append(@, WebhookLog(alerts[p][cur[p]], cur[p], ok))]
    /\ cur' = [cur EXCEPT ![p] = @ + 1]
    /\ pc' = [pc EXCEPT ![p] = "for"]
    /\ UNCHANGED <<args, source, lease, wd, sleep, interval_timer, wd_sleep,
                   alerts, lease_result, won, renewed_ago, wd_errs, exit,
                   dual_secs>>

\* one second passes: the Lease ages, every running timer counts down
Decrement(t) == [p \in Procs |-> IF t[p] > 0 THEN t[p] - 1 ELSE 0]

\* a task that can run does so before the second is over: time passes only
\* while every task waits for a timer that still runs or for a network call
Runnable(p) ==
    \/ pc[p] = "acquire_sleep" /\ sleep[p] = 0
    \/ pc[p] = "tick" /\ interval_timer[p] = 0
    \/ pc[p] = "for"
    \/ wd[p] = "sleep" /\ wd_sleep[p] = 0

\* p is past its acquire loop and the Lease names another replica
Superseded(p) ==
    /\ pc[p] \in {"tick", "get_alerts", "for", "delete_pod", "webhook"}
    /\ lease.holder \in Procs \ {p}

\* dual_secs is kept up to one second more than lease TTL + renewal sleep
WindowCap == args.lease_secs + RenewSecs + 1

Tick ==
    /\ \A p \in Procs : ~Runnable(p)
    /\ lease' = IF lease.holder # NoHolder /\ lease.age < args.lease_secs
                THEN [lease EXCEPT !.age = @ + 1] ELSE lease
    /\ sleep' = Decrement(sleep)
    /\ interval_timer' = Decrement(interval_timer)
    /\ wd_sleep' = Decrement(wd_sleep)
    /\ renewed_ago' = [p \in Procs |->
            IF renewed_ago[p] < args.lease_secs THEN renewed_ago[p] + 1 ELSE renewed_ago[p]]
    /\ dual_secs' = [p \in Procs |->
            IF dual_secs[p] = WindowOff THEN WindowOff
            ELSE IF ~Superseded(p) THEN 0
            ELSE IF dual_secs[p] < WindowCap THEN dual_secs[p] + 1 ELSE dual_secs[p]]
    /\ UNCHANGED <<args, source, pc, wd, alerts, cur, out, lease_result,
                   won, wd_errs, exit>>

Next ==
    \/ \E p \in Procs : AcquireReturn(p)
    \/ \E p \in Procs : AcquireWake(p)
    \/ \E p \in Procs : WatchdogWake(p)
    \/ \E p \in Procs : WatchdogReturn(p)
    \/ \E p \in Procs : IntervalTick(p)
    \/ \E p \in Procs : GetAlertsReturn(p)
    \/ \E p \in Procs : ForAlert(p)
    \/ \E p \in Procs : DeletePodReturn(p)
    \/ \E p \in Procs : WebhookReturn(p)
    \/ Tick

Spec == Init /\ [][Next]_vars

SpecDispatch == InitDispatch /\ [][Next]_vars

SpecWindow == InitWindow /\ [][Next]_vars

SpecShortTtl == InitShortTtl /\ [][Next]_vars

\* The tokio runtime resumes every task that can run, the clock advances, and
\* (the assumption of the progress claim) every network call returns.
Fairness ==
    /\ WF_vars(Tick)
    /\ \A p \in Procs :
        /\ WF_vars(AcquireReturn(p)) /\ WF_vars(AcquireWake(p))
        /\ WF_vars(WatchdogWake(p)) /\ WF_vars(WatchdogReturn(p))
        /\ WF_vars(IntervalTick(p)) /\ WF_vars(GetAlertsReturn(p))
        /\ WF_vars(ForAlert(p))
        /\ WF_vars(DeletePodReturn(p)) /\ WF_vars(WebhookReturn(p))

SpecFair == InitFair /\ [][Next]_vars /\ Fairness

-----------------------------------------------------------------------------
(* What the claims speak of *)

\* section 4.1: NotLeader until the acquire loop is left, Terminated once exited
LeaderState(p) ==
    IF pc[p] = "exited" THEN "Terminated"
    ELSE IF pc[p] \in {"absent", "acquire_call", "acquire_sleep"} THEN "NotLeader"
    ELSE "Leader"

Rank(state) == IF state = "NotLeader" THEN 0 ELSE IF state = "Leader" THEN 1 ELSE 2

\* a pod deletion or a webhook POST of p is in flight
Remediating(p) == pc[p] \in {"delete_pod", "webhook"}

\* everything that belongs to process p
ProcessState(p) ==
    <<pc[p], wd[p], sleep[p], interval_timer[p], wd_sleep[p], alerts[p], cur[p],
      out[p], lease_result[p], won[p], wd_errs[p], exit[p]>>

-----------------------------------------------------------------------------
C2_NoRemediationBeforeLeadership ==
    \A p \in Procs :
        (\/ pc[p] \in {"tick", "get_alerts", "for", "delete_pod", "webhook"}
         \/ wd[p] # "unspawned"
         \/ out[p] # <<>>) => won[p]

\* one replica deletes a pod as leader while the other still waits for the lease
C2_Witness ==
    /\ pc["r1"] = "delete_pod" /\ won["r1"]
    /\ pc["r2"] = "acquire_sleep" /\ ~won["r2"] /\ lease_result["r2"] = "denied"

(* C3: when a lease call of the renewal task returns acquired = false the   *)
(* process ends with exit status 1, whatever number of Err results came     *)
(* before it; the exit happens once, and an exited process takes no further *)
(* step (no renewal iteration, no poll cycle, no executor call).            *)
C3_LostLeaseExitsOnce ==
    /\ [](\A p \in Procs :
            (lease_result[p] = "denied" /\ wd[p] # "unspawned") =>
                /\ pc[p] = "exited" /\ wd[p] = "exited"
                /\ exit[p] = [code |-> ExitFailure, by |-> "lost_lease"])
    /\ [][\A p \in Procs :
            pc[p] = "exited" => /\ ProcessState(p)' = ProcessState(p)
                                /\ (lease'.holder = p => lease.holder = p)]_vars

\* the process has exited on a lost lease after MaxWdErrs renewal errors in a row
C3_Witness ==
    \E p \in Procs :
        /\ exit[p] = [code |-> ExitFailure, by |-> "lost_lease"]
        /\ wd_errs[p] = MaxWdErrs
        /\ lease.holder \in Procs \ {p}

(* C4: an Err returned by a lease call of the renewal task neither ends the *)
(* process nor changes its leadership state: the renewal task goes back to  *)
(* its 5 s sleep and the main task stays where it is, for any number of     *)
(* such errors in a row.                                                    *)
C4_RenewErrorIsNotFatal ==
    [][\A p \in Procs :
        (wd[p] = "renew_call" /\ wd'[p] # "renew_call" /\ lease_result'[p] = "error") =>
            /\ wd'[p] = "sleep" /\ wd_sleep'[p] = RenewSecs
            /\ pc'[p] = pc[p] /\ exit'[p] = NoExit
            /\ LeaderState(p)' = "Leader"
            /\ <<alerts[p], cur[p], out[p], interval_timer[p]>>'
                    = <<alerts[p], cur[p], out[p], interval_timer[p]>>
            /\ lease' = lease]_vars

\* after MaxWdErrs renewal errors in a row the main task is in a pod deletion
C4_Witness ==
    \E p \in Procs :
        /\ wd_errs[p] = MaxWdErrs /\ lease_result[p] = "error"
        /\ wd[p] = "sleep" /\ pc[p] = "delete_pod"

(* C5: every process starts NotLeader and its leadership state only moves   *)
(* forward (NotLeader, Leader, Terminated); it becomes Leader only by a     *)
(* lease call that returned acquired, and a Terminated process takes no     *)
(* further step.                                                            *)
C5_LeaderStateMovesForward ==
    /\ \A p \in Procs : LeaderState(p) = "NotLeader"
    /\ [][\A p \in Procs :
            /\ Rank(LeaderState(p)') >= Rank(LeaderState(p))
            /\ (LeaderState(p) = "NotLeader" /\ LeaderState(p)' = "Leader") =>
                    (lease_result'[p] = "acquired" /\ lease'.holder = p)
            /\ LeaderState(p) = "Terminated" => ProcessState(p)' = ProcessState(p)]_vars

\* a process went through all three states
C5_Witness ==
    \E p \in Procs : LeaderState(p) = "Terminated" /\ won[p] /\ exit[p].by = "lost_lease"

(* C6 as stated: the acquisition phase ends only by winning the lease, each *)
(* attempt that does not win being followed by another.  The code leaves    *)
(* the phase on an Err of the lease call as well (the ? of line 104).       *)
C6_AcquisitionEndsOnlyByWinning ==
    [][\A p \in Procs :
        (LeaderState(p) = "NotLeader" /\ LeaderState(p)' # "NotLeader") =>
            (LeaderState(p)' = "Leader" /\ lease_result'[p] = "acquired")]_vars

(* C6 amended: in the acquisition phase a lease call that returns           *)
(* acquired = false is followed by the 1 s backoff and then by another      *)
(* call, without a timeout; the phase ends by winning the lease, or by an   *)
(* Err of a lease call, which ends the process with exit status 1.          *)
C6_RetryUntilWonOrError ==
    [][\A p \in Procs :
        /\ (pc[p] = "acquire_call" /\ pc'[p] # "acquire_call") =>
              \/ /\ lease_result'[p] = "acquired" /\ LeaderState(p)' = "Leader"
              \/ /\ lease_result'[p] = "denied" /\ pc'[p] = "acquire_sleep"
                 /\ sleep'[p] = AcquireBackoffSecs
              \/ /\ lease_result'[p] = "error" /\ pc'[p] = "exited"
                 /\ exit'[p] = [code |-> ExitFailure, by |-> "lease_error"]
        /\ (pc[p] = "acquire_sleep" /\ pc'[p] # "acquire_sleep") =>
              (pc'[p] = "acquire_call" /\ sleep[p] = 0)]_vars

\* a second attempt is in flight after one that returned acquired = false
C6_Witness ==
    \E p \in Procs : pc[p] = "acquire_call" /\ lease_result[p] = "denied" /\ ~won[p]

-----------------------------------------------------------------------------
(* The poll cycle, read against what the alert source sent *)

\* the entries of out[p] of one kind that belong to the alert at index i
Entries(p, i, kind) ==
    {k \in 1..Len(out[p]) : out[p][k].idx = i /\ out[p][k].kind = kind}

\* the for loop has dispatched the alert at index i
Dispatched(p, i) == i < cur[p] \/ (i = cur[p] /\ pc[p] # "for")

\* the for loop of p has run to its end over n alerts
LoopEnded(p, n) == pc[p] = "for" /\ Len(alerts[p]) = n /\ cur[p] = n + 1

WireHas(w, k) == k \in DOMAIN w.labels
WireMatched(w) == w.labels["alertname"] \in args.alert_names /\ w.status.state = "active"
WireAction(w) == IF WireHas(w, "action") THEN w.labels["action"] ELSE "delete_pod"

WireDeleteCase(w) ==
    WireMatched(w) /\ WireAction(w) = "delete_pod" /\ WireHas(w, "pod") /\ WireHas(w, "namespace")

WireWebhookCase(w) ==
    WireMatched(w) /\ WireAction(w) = "webhook" /\ WireHas(w, "webhook_url")

WireMissingCase(w) ==
    /\ WireMatched(w)
    /\ \/ WireAction(w) = "delete_pod" /\ ~(WireHas(w, "pod") /\ WireHas(w, "namespace"))
       \/ WireAction(w) = "webhook" /\ ~WireHas(w, "webhook_url")

(* C7: for a fetched alert whose alertname is not in the allow-list or      *)
(* whose state is not "active", nothing is called and nothing is logged in  *)
(* the cycle, whatever its other labels are.                                *)
C7_UnmatchedAlertsAreIgnored ==
    \A p \in Procs : \A k \in 1..Len(out[p]) :
        out[p][k].idx >= 1 => WireMatched(source[out[p][k].idx])

\* the loop ended over a resolved alert that names a pod, and a matched one
C7_Witness ==
    \E p \in Procs :
        /\ LoopEnded(p, 2)
        /\ source[1].status.state = "resolved"
        /\ source[1].labels["alertname"] = AllowedName
        /\ WireHas(source[1], "pod") /\ WireHas(source[1], "namespace")
        /\ Entries(p, 2, "delete_pod") # {}
        /\ \A k \in 1..Len(out[p]) : out[p][k].idx = 2

(* C8: for a matched alert whose action is delete_pod (label absent or      *)
(* "delete_pod") and that has pod and namespace, the cycle makes exactly    *)
(* one deletion call, with that pod and that namespace, whether the call    *)
(* succeeds or fails, and no webhook POST.                                  *)
C8_OneDeletionPerAlert ==
    \A p \in Procs : \A i \in 1..Len(alerts[p]) :
        WireDeleteCase(source[i]) =>
            /\ Entries(p, i, "post") = {}
            /\ Cardinality(Entries(p, i, "delete_pod")) = IF Dispatched(p, i) THEN 1 ELSE 0
            /\ \A k \in Entries(p, i, "delete_pod") :
                /\ out[p][k].pod = source[i].labels["pod"]
                /\ out[p][k].namespace = source[i].labels["namespace"]

\* the loop ended, and the deletion for one of its alerts had failed
C8_Witness ==
    \E p \in Procs : \E i \in 1..Len(alerts[p]) :
        /\ LoopEnded(p, Len(alerts[p]))
        /\ WireDeleteCase(source[i])
        /\ \E k \in Entries(p, i, "log") : out[p][k].text = "Failed to delete pod: {}"

(* C9: a matched alert that lacks a field its action needs (delete_pod      *)
(* without pod or namespace, webhook without webhook_url) causes no call    *)
(* and exactly one error line, which names the alert's fingerprint; the for *)
(* loop goes on with the next alert, and the matched alerts after it are    *)
(* dispatched.                                                              *)
C9_MissingFieldSkipsOneAlert ==
    /\ [](\A p \in Procs : \A i \in 1..Len(alerts[p]) :
            WireMissingCase(source[i]) =>
                /\ Entries(p, i, "delete_pod") = {} /\ Entries(p, i, "post") = {}
                /\ Cardinality(Entries(p, i, "log")) = IF i < cur[p] THEN 1 ELSE 0
                /\ \A k \in Entries(p, i, "log") :
                    /\ out[p][k].level = "error"
                    /\ out[p][k].names = <<source[i].fingerprint>>
                /\ \A j \in (i + 1)..Len(alerts[p]) :
                    (j < cur[p] /\ WireMatched(source[j])) =>
                        \E k \in 1..Len(out[p]) : out[p][k].idx = j)
    /\ [][\A p \in Procs :
            (/\ pc[p] = "for" /\ cur[p] \in 1..Len(alerts[p])
             /\ WireMissingCase(source[cur[p]])
             /\ <<pc[p], cur[p], out[p]>>' # <<pc[p], cur[p], out[p]>>) =>
                \/ pc'[p] = "for" /\ cur'[p] = cur[p] + 1 /\ alerts'[p] = alerts[p]
                \/ pc'[p] = "exited"]_vars

\* a webhook alert without URL was skipped and the alert after it deleted its pod
C9_Witness ==
    \E p \in Procs :
        /\ LoopEnded(p, 2)
        /\ WireMissingCase(source[1]) /\ WireAction(source[1]) = "webhook"
        /\ Entries(p, 1, "log") # {}
        /\ Entries(p, 2, "delete_pod") # {}

(* C10: for a matched alert with action "webhook" and a webhook_url, the    *)
(* cycle makes exactly one POST, to that URL, whose body carries the        *)
(* alert's fingerprint, status and labels and deserializes to the alert;    *)
(* no deletion call is made for it, pod and namespace present or not.       *)
C10_OnePostPerWebhookAlert ==
    \A p \in Procs : \A i \in 1..Len(alerts[p]) :
        WireWebhookCase(source[i]) =>
            /\ Entries(p, i, "delete_pod") = {}
            /\ Cardinality(Entries(p, i, "post")) = IF Dispatched(p, i) THEN 1 ELSE 0
            /\ \A k \in Entries(p, i, "post") :
                /\ out[p][k].url = source[i].labels["webhook_url"]
                /\ out[p][k].body.fingerprint = source[i].fingerprint
                /\ out[p][k].body.status = source[i].status
                /\ \A key \in DOMAIN source[i].labels :
                        out[p][k].body.labels[key] = source[i].labels[key]
                /\ DeserializeAlert(out[p][k].body) = DeserializeAlert(source[i])

\* the POST was made for a webhook alert that also names a pod and a namespace
C10_Witness ==
    \E p \in Procs : \E i \in 1..Len(alerts[p]) :
        /\ LoopEnded(p, Len(alerts[p]))
        /\ WireWebhookCase(source[i])
        /\ WireHas(source[i], "pod") /\ WireHas(source[i], "namespace")
        /\ Entries(p, i, "post") # {}

-----------------------------------------------------------------------------
(* Unknown actions, failures inside a cycle, failed fetches *)

WireUnknownCase(w) ==
    /\ WireMatched(w)
    /\ WireHas(w, "action") /\ WireAction(w) \notin {"delete_pod", "webhook"}

(* C11: for a matched alert whose action label is present and is neither    *)
(* "delete_pod" nor "webhook", the cycle makes no deletion call and no      *)
(* POST and logs exactly one warning, which names the action and the        *)
(* fingerprint, whether pod, namespace and webhook_url are present or not.  *)
C11_UnknownActionOnlyWarns ==
    \A p \in Procs : \A i \in 1..Len(alerts[p]) :
        WireUnknownCase(source[i]) =>
            /\ Entries(p, i, "delete_pod") = {} /\ Entries(p, i, "post") = {}
            /\ Cardinality(Entries(p, i, "log")) = IF i < cur[p] THEN 1 ELSE 0
            /\ \A k \in Entries(p, i, "log") :
                /\ out[p][k].level = "warn"
                /\ out[p][k].names = <<source[i].labels["action"], source[i].fingerprint>>

\* the loop ended over a "restart" alert that has pod, namespace and webhook_url
C11_Witness ==
    \E p \in Procs :
        /\ LoopEnded(p, 1)
        /\ WireUnknownCase(source[1]) /\ source[1].labels["action"] = "restart"
        /\ WireHas(source[1], "pod") /\ WireHas(source[1], "namespace")
        /\ WireHas(source[1], "webhook_url")
        /\ Cardinality(Entries(p, 1, "log")) = 1

\* the call of alert i failed, or alert i was skipped with a log line
FailedOrSkipped(p, i) ==
    \E k \in Entries(p, i, "log") : out[p][k].level \in {"error", "warn"}

(* C12: within one poll cycle the for loop leaves the fetched list only at  *)
(* its end: after a failed deletion, a failed POST or a skipped alert at    *)
(* position i the loop goes on with position i + 1, and every matched alert *)
(* after i that the loop has passed has had its call or its skip line.      *)
C12_FailureIsolation ==
    /\ [](\A p \in Procs : \A i, j \in 1..Len(alerts[p]) :
            (i < j /\ FailedOrSkipped(p, i) /\ WireMatched(source[j]) /\ Dispatched(p, j)) =>
                IF WireDeleteCase(source[j]) THEN Entries(p, j, "delete_pod") # {}
                ELSE IF WireWebhookCase(source[j]) THEN Entries(p, j, "post") # {}
                ELSE Entries(p, j, "log") # {})
    /\ [][\A p \in Procs :
            /\ (pc[p] \in {"delete_pod", "webhook"} /\ pc'[p] # pc[p]) =>
                  \/ pc'[p] = "for" /\ cur'[p] = cur[p] + 1 /\ alerts'[p] = alerts[p]
                  \/ pc'[p] = "exited"
            /\ (pc[p] \in {"for", "delete_pod", "webhook"} /\ pc'[p] = "tick") =>
                  cur[p] = Len(alerts[p]) + 1]_vars

\* the deletion for the first alert failed and the second alert got its POST
C12_Witness ==
    \E p \in Procs :
        /\ LoopEnded(p, 2)
        /\ WireDeleteCase(source[1]) /\ WireWebhookCase(source[2])
        /\ \E k \in Entries(p, 1, "log") : out[p][k].text = "Failed to delete pod: {}"
        /\ Entries(p, 2, "post") # {}

\* line 189: what the main task logs when get_alerts returns Err
FetchFailedLog == LogLine(0, "error", "Failed to get alerts: {}", <<>>)

(* C13: a fetch that fails (no response, or a body that does not parse)     *)
(* only logs one error line: no deletion or POST is made in that cycle, the *)
(* process stays Leader and alive, the renewal task and the lease are not   *)
(* touched, and the main task waits for the next tick of the interval,      *)
(* after which its next step is another fetch.                              *)
C13_FailedFetchOnlyLogs ==
    /\ [](\A p \in Procs :
            /\ (\E k \in 1..Len(out[p]) : out[p][k] = FetchFailedLog) =>
                    (out[p] = <<FetchFailedLog>> /\ ~Remediating(p) /\ pc[p] # "for")
            /\ ~JsonVecAlert(source).ok => (~Remediating(p) /\ pc[p] # "for"))
    /\ [][\A p \in Procs :
            /\ (pc[p] = "get_alerts" /\ pc'[p] \notin {"get_alerts", "for"}) =>
                    /\ pc'[p] = "tick" /\ out'[p] = <<FetchFailedLog>>
                    /\ exit'[p] = NoExit /\ LeaderState(p)' = "Leader"
                    /\ <<wd[p], wd_sleep[p], interval_timer[p], lease>>'
                            = <<wd[p], wd_sleep[p], interval_timer[p], lease>>
            /\ (pc[p] = "tick" /\ pc'[p] \notin {"tick", "exited"}) =>
                    (pc'[p] = "get_alerts" /\ interval_timer[p] = 0)]_vars

\* the body did not parse: the error is logged and the main task waits for the tick
C13_Witness ==
    \E p \in Procs :
        /\ ~JsonVecAlert(source).ok
        /\ pc[p] = "tick" /\ out[p] = <<FetchFailedLog>>
        /\ interval_timer[p] > 0 /\ wd[p] = "sleep" /\ exit[p] = NoExit

-----------------------------------------------------------------------------
(* Order of the calls *)

\* s is t with entries appended
Extends(s, t) == Len(s) >= Len(t) /\ SubSeq(s, 1, Len(t)) = t

(* C14: the calls and skip lines of one cycle come in the order of the      *)
(* fetched list, each alert's call and its result before anything of a      *)
(* later alert, and a cycle begins (the fetch is issued) only when the      *)
(* cycle before it is over: no call of it is in flight and its for loop has *)
(* ended.                                                                   *)
C14_CallsInListOrder ==
    /\ [](\A p \in Procs : \A k \in 1..Len(out[p]) :
            /\ \A l \in 1..Len(out[p]) : k < l => out[p][k].idx <= out[p][l].idx
            /\ \A j \in 1..(out[p][k].idx - 1) :
                    WireMatched(source[j]) => \E l \in 1..(k - 1) : out[p][l].idx = j)
    /\ [][\A p \in Procs :
            /\ out'[p] # out[p] =>
                  \/ out'[p] = <<>>
                  \/ /\ Extends(out'[p], out[p]) /\ Len(out'[p]) = Len(out[p]) + 1
                     /\ out'[p][Len(out'[p])].idx \in {0, cur[p]}
            /\ (pc'[p] = "get_alerts" /\ pc[p] # "get_alerts") =>
                  (pc[p] = "tick" /\ alerts[p] = <<>> /\ out'[p] = <<>>)
            /\ cur'[p] < cur[p] => pc'[p] \in {"tick", "exited"}]_vars

\* a POST for the first alert, then a deletion for the second, both answered
C14_Witness ==
    \E p \in Procs :
        /\ LoopEnded(p, 2)
        /\ WireWebhookCase(source[1]) /\ WireDeleteCase(source[2])
        /\ Len(out[p]) = 4
        /\ out[p][1].kind = "post" /\ out[p][1].idx = 1
        /\ out[p][3].kind = "delete_pod" /\ out[p][3].idx = 2

-----------------------------------------------------------------------------
(* Who calls the lease client *)

\* the try_acquire_or_renew calls of p that have not returned yet
LeaseCallsInFlight(p) ==
    (IF pc[p] = "acquire_call" THEN 1 ELSE 0) + (IF wd[p] = "renew_call" THEN 1 ELSE 0)

(* C15: a process has at most one lease call in flight; once its initial    *)
(* acquisition has succeeded its main task makes no lease call any more,    *)
(* and every later lease result of the process is one the renewal task      *)
(* received, the main task staying where it is unless the process ends.     *)
C15_OnlyTheWatchdogRenews ==
    /\ [](\A p \in Procs :
            /\ LeaseCallsInFlight(p) <= 1
            /\ won[p] => pc[p] \notin {"acquire_call", "acquire_sleep"}
            /\ wd[p] \in {"sleep", "renew_call"} => won[p])
    /\ [][\A p \in Procs :
            (won[p] /\ (lease_result'[p] # lease_result[p]
                        \/ (lease'.holder = p /\ lease.holder # p))) =>
                /\ wd[p] = "renew_call" /\ wd'[p] # "renew_call"
                /\ pc'[p] \in {pc[p], "exited"}]_vars

\* the renewal task's call is in flight while the main task awaits a deletion
\* and the other replica awaits its acquisition call
C15_Witness ==
    /\ won["r1"] /\ wd["r1"] = "renew_call" /\ pc["r1"] = "delete_pod"
    /\ pc["r2"] = "acquire_call" /\ ~won["r2"]
    /\ LeaseCallsInFlight("r1") = 1 /\ LeaseCallsInFlight("r2") = 1

-----------------------------------------------------------------------------
(* The window of dual leadership *)

-----------------------------------------------------------------------------
(* Startup failure *)

(* C17: an Err of the lease call in the acquire loop, the very first call   *)
(* included, ends the process at once with exit status 1: the renewal task  *)
(* is never spawned, no alert is fetched and nothing is deleted or posted,  *)
(* then or later.                                                           *)
C17_StartupErrorExits ==
    /\ [](\A p \in Procs :
            (~won[p] /\ lease_result[p] = "error") =>
                /\ pc[p] = "exited" /\ exit[p] = [code |-> ExitFailure, by |-> "lease_error"]
                /\ wd[p] = "unspawned"
                /\ alerts[p] = <<>> /\ out[p] = <<>>)
    /\ [][\A p \in Procs :
            /\ (lease_result[p] = "none" /\ lease_result'[p] = "error") =>
                    /\ pc[p] = "acquire_call" /\ pc'[p] = "exited"
                    /\ exit'[p].code = ExitFailure /\ wd'[p] = "unspawned"
            /\ exit[p].by = "lease_error" =>
                    (ProcessState(p)' = ProcessState(p) /\ lease'.holder # p)]_vars

\* the first lease call of a replica failed while the Lease did not exist yet
C17_Witness ==
    \E p \in Procs :
        /\ exit[p] = [code |-> ExitFailure, by |-> "lease_error"]
        /\ lease_result[p] = "error" /\ ~won[p] /\ wd[p] = "unspawned"
        /\ lease.holder = NoHolder

-----------------------------------------------------------------------------
(* Progress *)

(* C18: when every task that can run is resumed, time advances and every    *)
(* network call returns, a process that stays Leader for ever (no lease     *)
(* call of it returns acquired = false) fetches alerts again and again and  *)
(* finishes each cycle, and its renewal task calls the lease again and      *)
(* again: renewal errors, failed fetches and failed calls stop neither.     *)
C18_PollLoopProgress ==
    \A p \in Procs :
        <>[](LeaderState(p) = "Leader") =>
            /\ []<>(pc[p] = "get_alerts")
            /\ []<>(pc[p] = "tick")
            /\ []<>(wd[p] = "renew_call")

\* a leader fetches again after a failed deletion in the cycle before and
\* MaxWdErrs renewal errors in a row
C18_Witness ==
    \E p \in Procs :
        /\ pc[p] = "get_alerts" /\ LeaderState(p) = "Leader"
        /\ wd_errs[p] = MaxWdErrs /\ wd[p] = "renew_call"

-----------------------------------------------------------------------------
(* Losing the lease without noticing *)

(* C19 as stated: when a lease call of a Leader's renewal task returns      *)
(* acquired = true, no other replica has held the lease since the process's *)
(* previous successful lease call, that is, the Lease still named the       *)
(* process when the call was made.  The code does not keep this: the call   *)
(* is try_acquire_or_renew, which also takes a Lease that names another     *)
(* replica and has expired.                                                 *)
C19_NoSilentReacquire ==
    [][\A p \in Procs :
        (/\ LeaderState(p) = "Leader"
         /\ wd[p] = "renew_call" /\ wd'[p] # "renew_call"
         /\ lease_result'[p] = "acquired") => lease.holder = p]_vars

-----------------------------------------------------------------------------
(* The renewal sleep against the lease TTL *)

\* p leads and no lease call of it has failed or is in flight: its last lease
\* call returned acquired and its renewal task sleeps
RenewalsSucceed(p) ==
    /\ LeaderState(p) = "Leader"
    /\ lease_result[p] = "acquired" /\ wd_errs[p] = 0 /\ wd[p] = "sleep"

(* C20 as stated: whatever --lease-secs is, a leader whose renewal calls    *)
(* all succeed holds an unexpired lease at all times, so that no other      *)
(* replica acquires it.  The code does not keep this: the renewal sleep is  *)
(* 5 s whatever the TTL, and a lease with a TTL below it expires before its *)
(* first renewal.                                                           *)
C20_LeaseHeldContinuously ==
    \A p \in Procs : RenewalsSucceed(p) => (lease.holder = p /\ ~LeaseExpired)

====
